---- MODULE Spec2Model ----
(***************************************************************************)
(* A model of clapr: the command walker, the GNU and POSIX rule chains,    *)
(* the binder invoker and the executor of runner.Run.                      *)
(*                                                                         *)
(* A Go string is a sequence of one-character strings; a rune is a         *)
(* one-character string and the zero rune is "".  Pointers to commands and *)
(* argument definitions are indices into cmds and argdefs; 0 is nil.       *)
(***************************************************************************)
EXTENDS Integers, Sequences, FiniteSets, TLC

VARIABLES
    argv,      \* runner.argv: os.Args[1:] captured by NewRunner
    root,      \* runner.root: the Command NewRunner was given (0 when nil)
    syntax,    \* runner.syntax
    cmds,      \* the Command graph: id -> Command
    argdefs,   \* the Arg definitions: id -> Arg
    declared,  \* the Arg definitions as the utility declared them
    target,    \* the variables the binders point at: arg id -> value
    ctxErr,    \* ctx.Err() != nil
    pc,        \* where the caller / Run is: "ready", "parse", "exec", "done"
    cmdctx,    \* runner.cmdctx
    argctx,    \* runner.argctx
    pi,        \* position of parse()'s loop in cmdctx.parsed (1-based)
    ti,        \* position of parseArgRules' loop in cmd.args (1-based)
    rparsed,   \* runner.parsed
    ei,        \* position of Run's loop in runner.parsed (1-based)
    ran,       \* the actions invoked by the current Run, in order
    result,    \* what the current Run returned
    runs,      \* how many times Run has been called on this runner
    binder,    \* an ArgBinder a caller invokes directly, and its last Bind call
    walker     \* the loops of parseCommands and updatePath, where Run is followed
               \* through them step by step

vars == <<argv, root, syntax, cmds, argdefs, declared, target, ctxErr, pc, cmdctx, argctx,
          pi, ti, rparsed, ei, ran, result, runs, binder, walker>>

----------------------------------------------------------------------------
(* Bounds of the model                                                     *)

\* the longest command line
MaxArgv == 3

\* how many times the caller calls Run on one runner
MaxRuns == 2

\* the longest command line on which the caller calls Run again
MaxRerunArgv == 1

----------------------------------------------------------------------------
(* Strings                                                                 *)

NoRune == ""

Letters == {"a", "b", "f", "h", "o", "r", "x", "z", "e", "l", "p", "q", "u"}

Digits == {"0", "1", "2"}

\* unicode.IsLetter(ch) || unicode.IsNumber(ch)
IsLetterOrNumber(ch) == ch \in Letters \cup Digits

HasPrefix(s, p) == Len(p) <= Len(s) /\ SubSeq(s, 1, Len(p)) = p

TrimPrefix(s, p) == IF HasPrefix(s, p) THEN SubSeq(s, Len(p) + 1, Len(s)) ELSE s

\* s[i:] with Go's 0-based i
From(s, i) == SubSeq(s, i + 1, Len(s))

RECURSIVE Split(_, _)
\* strings.Split(s, sep) for a one-character sep
Split(s, sep) ==
    IF \A k \in 1..Len(s) : s[k] # sep
    THEN <<s>>
    ELSE LET k == CHOOSE j \in 1..Len(s) :
                      s[j] = sep /\ \A m \in 1..(j - 1) : s[m] # sep
         IN  <<SubSeq(s, 1, k - 1)>> \o Split(SubSeq(s, k + 1, Len(s)), sep)

RECURSIVE Join(_, _)
\* strings.Join(parts, sep)
Join(parts, sep) ==
    IF Len(parts) = 0 THEN <<>>
    ELSE IF Len(parts) = 1 THEN parts[1]
    ELSE parts[1] \o <<sep>> \o Join(Tail(parts), sep)

DD == <<"-", "-">>

D == <<"-">>

----------------------------------------------------------------------------
(* Errors                                                                  *)

NoErr == [kind |-> "nil"]

Err(k, t) == [kind |-> k, text |-> t]

ErrTermAt(i) == [kind |-> "term", index |-> i]

----------------------------------------------------------------------------
(* Argument definitions and the parse context                              *)

\* isBoolArg: the definition is set and its binder is a *boolArgBinder
isBoolArg(defs, a) == a # 0 /\ defs[a].Binder = "bool"

\* isValidPosixName(long, short)
isValidPosixName(long, short) ==
    LET lngvalid == Len(long) = 1 /\ IsLetterOrNumber(long[1])
        shvalid  == IsLetterOrNumber(short)
    IN  lngvalid \/ shvalid

\* isValidRptArg(ctx, opt): no parsed argument of a non-repeatable
\* definition carries opt as its long or its short name
isValidRptArg(defs, ctx, opt) ==
    \A k \in 1..Len(ctx.parsed) :
        LET p == defs[ctx.parsed[k].argdef]
        IN  ~((opt = p.Name \/ opt = <<p.ShortName>>) /\ ~p.Repeatable)

\* updateArgCtx(arg, raw, ctx)
updateArgCtx(a, raw, ctx) ==
    [ctx EXCEPT !.parsed = Append(@, [argdef |-> a, raw |-> raw, val |-> <<>>]),
                !.last = Len(ctx.parsed) + 1]

\* ctx.last.val = v
SetLastVal(ctx, v) == [ctx EXCEPT !.parsed[ctx.last].val = v]

\* the *Arg ctx.last points at (0 when ctx.last is nil)
LastDef(ctx) == IF ctx.last = 0 THEN 0 ELSE ctx.parsed[ctx.last].argdef

LastVal(ctx) == ctx.parsed[ctx.last].val

\* what a rule leaves behind: (skip, err), the token it may have rewritten
\* through its pointer, the context and the definitions it may have changed
RuleOut(skip, err, arg, ctx, defs) ==
    [skip |-> skip, err |-> err, arg |-> arg, ctx |-> ctx, defs |-> defs]

----------------------------------------------------------------------------
(* The rules.  i is parseArgRules' 0-based index of the token.             *)

gnuTerminated(arg, i, ctx, defs) ==
    IF arg = DD /\ ctx.last # 0 /\ ~defs[LastDef(ctx)].Required /\ LastVal(ctx) = <<>>
    THEN RuleOut(TRUE, ErrTermAt(i), arg, ctx, defs)
    ELSE RuleOut(FALSE, NoErr, arg, ctx, defs)

posixTerminated(arg, i, ctx, defs) ==
    IF arg = DD /\ (i = 0 \/ (ctx.last # 0 /\ (isBoolArg(defs, LastDef(ctx)) \/ LastVal(ctx) # <<>>)))
    THEN RuleOut(TRUE, ErrTermAt(i), arg, ctx, defs)
    ELSE RuleOut(FALSE, NoErr, arg, ctx, defs)

validGnuOpt(arg, i, ctx, defs) ==
    IF i = 0 /\ ~HasPrefix(arg, D) /\ ~HasPrefix(arg, DD)
    THEN RuleOut(FALSE, Err("invalid_option", arg), arg, ctx, defs)
    ELSE RuleOut(FALSE, NoErr, arg, ctx, defs)

\* a validPosixOpt that lets every first token through
validPosixOptAny(arg, i, ctx, defs) == RuleOut(FALSE, NoErr, arg, ctx, defs)

validPosixOpt(arg, i, ctx, defs) ==
    IF i = 0 /\ ~HasPrefix(arg, D)
    THEN RuleOut(FALSE, Err("invalid_option", arg), arg, ctx, defs)
    ELSE RuleOut(FALSE, NoErr, arg, ctx, defs)

\* every character of every "-"-separated part of name is a valid name
gnuNameValid(name) ==
    LET parts == Split(name, "-")
    IN  \A p \in 1..Len(parts) : \A c \in 1..Len(parts[p]) :
            isValidPosixName(<<parts[p][c]>>, parts[p][c])

gnuOpt(arg, i, ctx, defs) ==
    IF ~HasPrefix(arg, DD) \/ arg = DD
    THEN RuleOut(FALSE, NoErr, arg, ctx, defs)
    ELSE LET optparts == Split(TrimPrefix(arg, DD), "=")
             opt      == optparts[1]
             optarg   == Join(Tail(optparts), "=")
             match    == {k \in 1..Len(ctx.args) : defs[ctx.args[k]].Name = opt}
         IN  IF match = {}
             THEN RuleOut(FALSE, NoErr, arg, ctx, defs)
             ELSE LET a == ctx.args[CHOOSE k \in match : \A m \in match : k <= m]
                  IN  IF ~gnuNameValid(defs[a].Name)
                      THEN RuleOut(FALSE, Err("invalid_name", DD \o opt), arg, ctx, defs)
                      ELSE IF ~isValidRptArg(defs, ctx, opt)
                      THEN RuleOut(FALSE, Err("non_repeatable", DD \o opt), arg, ctx, defs)
                      ELSE RuleOut(TRUE, NoErr, arg,
                                   SetLastVal(updateArgCtx(a, arg, ctx), optarg), defs)

gnuOptArg(arg, i, ctx, defs) ==
    IF ctx.last = 0 \/ ~HasPrefix(ctx.parsed[ctx.last].raw, DD)
    THEN RuleOut(FALSE, NoErr, arg, ctx, defs)
    ELSE IF ~defs[LastDef(ctx)].Required /\ LastVal(ctx) = <<>>
    THEN RuleOut(FALSE, Err("optional_optarg", arg), arg, ctx, defs)
    ELSE RuleOut(TRUE, NoErr, arg, SetLastVal(ctx, arg), defs)

posixOperand(arg, i, ctx, defs) ==
    IF ctx.last # 0 /\ LastVal(ctx) # <<>>
    THEN RuleOut(TRUE, NoErr, arg, [ctx EXCEPT !.operands = Append(@, arg)], defs)
    ELSE RuleOut(FALSE, NoErr, arg, ctx, defs)

\* posixOptArg that takes the token for an operand
posixOptArgAsOperand(arg, i, ctx, defs) ==
    IF ctx.last # 0
    THEN RuleOut(TRUE, NoErr, arg, [ctx EXCEPT !.operands = Append(@, arg)], defs)
    ELSE RuleOut(FALSE, NoErr, arg, ctx, defs)

posixOptArg(arg, i, ctx, defs) ==
    IF ctx.last # 0
    THEN RuleOut(TRUE, NoErr, arg, SetLastVal(ctx, arg), defs)
    ELSE RuleOut(FALSE, NoErr, arg, ctx, defs)

\* the first definition of ctx.args that the character ch names, or 0
posixMatch(ch, ctx, defs) ==
    LET match == {k \in 1..Len(ctx.args) :
                     defs[ctx.args[k]].Name = <<ch>> \/ defs[ctx.args[k]].ShortName = ch}
    IN  IF match = {} THEN 0
        ELSE ctx.args[CHOOSE k \in match : \A m \in match : k <= m]

RECURSIVE posixOptScan(_, _, _)
\* the loop over the characters of opt, from 0-based position i on;
\* s holds the locals: arg (*arg), rest, parsed, and ctx, defs
posixOptScan(opt, i, s) ==
    IF i >= Len(opt)
    THEN RuleOut(s.parsed, NoErr, s.arg, s.ctx, s.defs)
    ELSE LET ch   == opt[i + 1]
             name == <<ch>>
             a    == posixMatch(ch, s.ctx, s.defs)
         IN  IF a # 0
             THEN IF ~isValidPosixName(s.defs[a].Name, s.defs[a].ShortName)
                  THEN RuleOut(FALSE, Err("invalid_name", D \o opt), s.arg, s.ctx, s.defs)
                  ELSE IF ~isValidRptArg(s.defs, s.ctx, name)
                  THEN RuleOut(FALSE, Err("non_repeatable", D \o opt), s.arg, s.ctx, s.defs)
                  ELSE LET defs2 == [s.defs EXCEPT ![a].Required = TRUE]
                           ctx2  == updateArgCtx(a, s.arg, s.ctx)
                           rest2 == TrimPrefix(s.rest, name)
                           arg2  == s.rest
                       IN  IF ~isBoolArg(defs2, a) /\ Len(From(opt, i)) > 1
                           THEN RuleOut(TRUE, NoErr, arg2,
                                        SetLastVal(ctx2, From(opt, i + 1)), defs2)
                           ELSE posixOptScan(opt, i + 1,
                                    [arg |-> arg2, rest |-> rest2, parsed |-> TRUE,
                                     ctx |-> ctx2, defs |-> defs2])
             ELSE \* no definition matched: parsed was reset by the inner loop
                  LET parsed2 == IF Len(s.ctx.args) = 0 THEN s.parsed ELSE FALSE
                  IN  IF i = 0 /\ ~parsed2
                      THEN RuleOut(parsed2, NoErr, s.arg, s.ctx, s.defs)
                      ELSE IF ~parsed2
                      THEN RuleOut(TRUE, NoErr, s.arg, SetLastVal(s.ctx, s.arg), s.defs)
                      ELSE posixOptScan(opt, i + 1, [s EXCEPT !.parsed = parsed2])

posixOpt(arg, i, ctx, defs) ==
    IF ~HasPrefix(arg, D) \/ Len(arg) < 2 \/ arg = DD
    THEN RuleOut(FALSE, NoErr, arg, ctx, defs)
    ELSE LET opt == TrimPrefix(arg, D)
         IN  posixOptScan(opt, 0, [arg |-> arg, rest |-> opt, parsed |-> FALSE,
                                   ctx |-> ctx, defs |-> defs])

getGnuRules ==
    <<"gnuTerminated", "posixTerminated", "validGnuOpt", "gnuOpt",
      "posixOperand", "gnuOptArg", "posixOpt", "posixOptArg">>

getPosixRules ==
    <<"posixTerminated", "validPosixOpt", "posixOpt", "posixOperand", "posixOptArg">>

\* calling the rule function a chain names
ApplyRule(rule, arg, i, ctx, defs) ==
    CASE rule = "gnuTerminated"   -> gnuTerminated(arg, i, ctx, defs)
      [] rule = "posixTerminated" -> posixTerminated(arg, i, ctx, defs)
      [] rule = "validGnuOpt"     -> validGnuOpt(arg, i, ctx, defs)
      [] rule = "validPosixOpt"   -> validPosixOpt(arg, i, ctx, defs)
      [] rule = "gnuOpt"          -> gnuOpt(arg, i, ctx, defs)
      [] rule = "gnuOptArg"       -> gnuOptArg(arg, i, ctx, defs)
      [] rule = "posixOpt"        -> posixOpt(arg, i, ctx, defs)
      [] rule = "posixOperand"    -> posixOperand(arg, i, ctx, defs)
      [] rule = "posixOptArg"     -> posixOptArg(arg, i, ctx, defs)

RECURSIVE RunRulesLenient(_, _, _, _, _, _)
\* the inner loop of parseArgRules, taking a token that no rule consumed for
\* a consumed one
RunRulesLenient(rules, k, arg, i, ctx, defs) ==
    IF k > Len(rules)
    THEN RuleOut(TRUE, NoErr, arg, ctx, defs)
    ELSE LET o == ApplyRule(rules[k], arg, i, ctx, defs)
         IN  IF o.err # NoErr \/ o.skip THEN o
             ELSE RunRulesLenient(rules, k + 1, o.arg, i, o.ctx, o.defs)

RECURSIVE RunRules(_, _, _, _, _, _)
\* the inner loop of parseArgRules: the rules from position k on, until one
\* returns an error or reports the token consumed
RunRules(rules, k, arg, i, ctx, defs) ==
    IF k > Len(rules)
    THEN RuleOut(FALSE, NoErr, arg, ctx, defs)
    ELSE LET o == ApplyRule(rules[k], arg, i, ctx, defs)
         IN  IF o.err # NoErr \/ o.skip THEN o
             ELSE RunRules(rules, k + 1, o.arg, i, o.ctx, o.defs)

----------------------------------------------------------------------------
(* Binders                                                                 *)

\* the value of a decimal digit
DigitValue(ch) == CASE ch = "0" -> 0 [] ch = "1" -> 1 [] ch = "2" -> 2

IsDigits(s) == Len(s) > 0 /\ \A k \in 1..Len(s) : s[k] \in Digits

RECURSIVE UintValue(_)
\* the number a string of decimal digits denotes
UintValue(s) ==
    IF Len(s) = 0 THEN 0
    ELSE 10 * UintValue(SubSeq(s, 1, Len(s) - 1)) + DigitValue(s[Len(s)])

\* strconv.ParseUint(s, 10, _): digits only, no sign
ParseUint(s) ==
    IF IsDigits(s) THEN [ok |-> TRUE, n |-> UintValue(s)] ELSE [ok |-> FALSE, n |-> 0]

\* strconv.ParseInt(s, 10, _): an optional sign, then digits
ParseInt(s) ==
    IF Len(s) > 0 /\ s[1] \in {"-", "+"}
    THEN IF IsDigits(Tail(s))
         THEN [ok |-> TRUE,
               n |-> IF s[1] = "-" THEN 0 - UintValue(Tail(s)) ELSE UintValue(Tail(s))]
         ELSE [ok |-> FALSE, n |-> 0]
    ELSE ParseUint(s)

\* strconv.Atoi(s)
Atoi(s) == ParseInt(s)

\* strconv.ParseFloat(s, 64) on strings of signs, digits, commas and spaces
\* (no '.', exponent, "inf" or "nan" can be written with them)
ParseFloat(s) == ParseInt(s)

RECURSIVE TrimSpace(_)
\* strings.TrimSpace(s)
TrimSpace(s) ==
    IF Len(s) > 0 /\ s[1] = " " THEN TrimSpace(Tail(s))
    ELSE IF Len(s) > 0 /\ s[Len(s)] = " " THEN TrimSpace(SubSeq(s, 1, Len(s) - 1))
    ELSE s

\* the binder kinds: one per New...ArgBinder constructor
ScalarKinds == {"float64", "int", "int64", "uint", "uint64"}

ListKinds == {"float64list", "intlist", "int64list", "uintlist", "uint64list"}

BinderKinds == {"bool", "string", "stringlist"} \cup ScalarKinds \cup ListKinds

\* the strconv call of a numeric binder kind on one value
Convert(kind, s) ==
    CASE kind = "float64"                 -> ParseFloat(s)
      [] kind = "float64list"             -> ParseFloat(TrimSpace(s))
      [] kind = "int"                     -> Atoi(s)
      [] kind = "intlist"                 -> Atoi(s)
      [] kind \in {"int64", "int64list"}  -> ParseInt(s)
      [] OTHER                            -> ParseUint(s)

\* a numeric list binder that appends to the slice the variable holds
BindListAppend(kind, cur, val) ==
    LET parts == Split(val, ",")
    IN  IF \E k \in 1..Len(parts) : ~Convert(kind, parts[k]).ok
        THEN [err |-> Err("bind", val), val |-> cur]
        ELSE [err |-> NoErr,
              val |-> cur \o [k \in 1..Len(parts) |-> Convert(kind, parts[k]).n]]

\* a numeric list binder that stores the elements it has converted when
\* one does not convert
BindListPartial(kind, cur, val) ==
    LET parts == Split(val, ",")
        bad   == {k \in 1..Len(parts) : ~Convert(kind, parts[k]).ok}
        first == CHOOSE k \in bad : \A m \in bad : k <= m
    IN  IF bad # {}
        THEN [err |-> Err("bind", IF kind = "float64list" THEN val ELSE parts[first]),
              val |-> [k \in 1..(first - 1) |-> Convert(kind, parts[k]).n]]
        ELSE [err |-> NoErr,
              val |-> [k \in 1..Len(parts) |-> Convert(kind, parts[k]).n]]

\* the loop of a numeric list binder: it appends the converted elements of
\* strings.Split(val, ",") to a new slice and assigns the slice to the
\* variable after the last one; the first element that does not convert
\* makes it return before the assignment
BindList(kind, cur, val) ==
    LET parts == Split(val, ",")
        bad   == {k \in 1..Len(parts) : ~Convert(kind, parts[k]).ok}
        first == CHOOSE k \in bad : \A m \in bad : k <= m
    IN  IF bad # {}
        THEN [err |-> Err("bind", IF kind = "float64list" THEN val ELSE parts[first]),
              val |-> cur]
        ELSE [err |-> NoErr,
              val |-> [k \in 1..Len(parts) |-> Convert(kind, parts[k]).n]]

\* a boolean binder that takes any value for true
BindBoolAnyValue(cur, val) == [err |-> NoErr, val |-> TRUE]

\* boolArgBinder.Bind
BindBool(cur, val) ==
    IF val # <<>>
    THEN [err |-> Err("bind", val), val |-> cur]
    ELSE [err |-> NoErr, val |-> TRUE]

\* a string binder that assigns the empty value too
BindStringAssignsEmpty(cur, val) == [err |-> NoErr, val |-> val]

\* stringBinder.Bind
BindString(cur, val) ==
    IF val = <<>>
    THEN [err |-> NoErr, val |-> cur]
    ELSE [err |-> NoErr, val |-> val]

\* ArgBinder.Bind(arg, val) of the binder kind, on the variable it points
\* at: the error it returns and the variable afterwards
Bind(kind, cur, arg, val) ==
    CASE kind = "bool"       -> BindBool(cur, val)
      [] kind = "string"     -> BindString(cur, val)
      [] kind = "stringlist" ->
            IF val = <<>>
            THEN [err |-> NoErr, val |-> cur]
            ELSE [err |-> NoErr, val |-> Split(val, ",")]
      [] kind \in ScalarKinds ->
            IF val = <<>>
            THEN [err |-> NoErr, val |-> cur]
            ELSE IF ~Convert(kind, val).ok
            THEN [err |-> Err("bind", val), val |-> cur]
            ELSE [err |-> NoErr, val |-> Convert(kind, val).n]
      [] kind \in ListKinds ->
            IF val = <<>>
            THEN [err |-> NoErr, val |-> cur]
            ELSE BindList(kind, cur, val)

\* validateReqArg(arg)
validateReqArg(defs, pa) ==
    IF ~isBoolArg(defs, pa.argdef) /\ defs[pa.argdef].Required /\ pa.val = <<>>
    THEN Err("missing", defs[pa.argdef].Name)
    ELSE NoErr

RECURSIVE bindArgsHelpLast(_, _, _, _)
\* bindArgs that binds the help argument like any other argument
bindArgsHelpLast(defs, pargs, k, tgt) ==
    IF k > Len(pargs) THEN [err |-> NoErr, target |-> tgt]
    ELSE LET pa == pargs[k]
             d  == defs[pa.argdef]
         IN  IF validateReqArg(defs, pa) # NoErr
             THEN [err |-> validateReqArg(defs, pa), target |-> tgt]
             ELSE IF d.Binder = "nil" THEN bindArgsHelpLast(defs, pargs, k + 1, tgt)
             ELSE LET b == Bind(d.Binder, tgt[pa.argdef], pa.raw, pa.val)
                  IN  IF b.err # NoErr THEN [err |-> b.err, target |-> tgt]
                      ELSE bindArgsHelpLast(defs, pargs, k + 1,
                                            [tgt EXCEPT ![pa.argdef] = b.val])

RECURSIVE bindArgsKeepsGoing(_, _, _, _)
\* bindArgs that binds the arguments after the one it fails on as well and
\* returns the first error
bindArgsKeepsGoing(defs, pargs, k, tgt) ==
    IF k > Len(pargs) THEN [err |-> NoErr, target |-> tgt]
    ELSE LET pa   == pargs[k]
             d    == defs[pa.argdef]
             b    == IF d.Binder = "nil" THEN [err |-> NoErr, val |-> tgt[pa.argdef]]
                     ELSE Bind(d.Binder, tgt[pa.argdef], pa.raw, pa.val)
             e    == IF d.IsHelp THEN [kind |-> "help"]
                     ELSE IF validateReqArg(defs, pa) # NoErr
                     THEN validateReqArg(defs, pa)
                     ELSE b.err
             rest == bindArgsKeepsGoing(defs, pargs, k + 1,
                                        [tgt EXCEPT ![pa.argdef] = b.val])
         IN  [err |-> IF e # NoErr THEN e ELSE rest.err, target |-> rest.target]

RECURSIVE bindArgs(_, _, _, _)
\* runner.bindArgs over cmd.parsedargs from position k on: the error it
\* returns and the bound variables afterwards
bindArgs(defs, pargs, k, tgt) ==
    IF k > Len(pargs) THEN [err |-> NoErr, target |-> tgt]
    ELSE LET pa == pargs[k]
             d  == defs[pa.argdef]
         IN  IF d.IsHelp THEN [err |-> [kind |-> "help"], target |-> tgt]
             ELSE IF validateReqArg(defs, pa) # NoErr
             THEN [err |-> validateReqArg(defs, pa), target |-> tgt]
             ELSE IF d.Binder = "nil" THEN bindArgs(defs, pargs, k + 1, tgt)
             ELSE LET b == Bind(d.Binder, tgt[pa.argdef], pa.raw, pa.val)
                  IN  IF b.err # NoErr THEN [err |-> b.err, target |-> tgt]
                      ELSE bindArgs(defs, pargs, k + 1,
                                    [tgt EXCEPT ![pa.argdef] = b.val])

----------------------------------------------------------------------------
(* The command graph                                                       *)

HelpArg ==
    [Binder |-> "bool", IsHelp |-> TRUE, Name |-> <<"h", "e", "l", "p">>,
     Repeatable |-> TRUE, Required |-> FALSE, ShortName |-> "h"]

\* configureArgs that looks at IsHelp only
configureArgsIsHelpOnly(cs, defs, c, help) ==
    IF c = 0 THEN cs
    ELSE IF \E k \in 1..Len(cs[c].Args) : defs[cs[c].Args[k]].IsHelp
    THEN cs
    ELSE [cs EXCEPT ![c].Args = Append(@, help), ![c].helper = "default"]

\* configureArgs(cmd): the command receives the help definition help (and the
\* default helper) unless one of its definitions is a help definition
configureArgs(cs, defs, c, help) ==
    IF c = 0 THEN cs
    ELSE IF \E k \in 1..Len(cs[c].Args) :
               LET a == defs[cs[c].Args[k]]
               IN  a.IsHelp \/ a.Name = <<"h", "e", "l", "p">> \/ a.Name = <<"h">>
                   \/ a.ShortName = "h"
    THEN cs
    ELSE [cs EXCEPT ![c].Args = Append(@, help), ![c].helper = "default"]

\* Command.AddSubcommand(sub) on the command c
AddSubcommand(cs, defs, c, sub, help) ==
    LET cs2 == configureArgs(cs, defs, sub, help)
    IN  [cs2 EXCEPT ![sub].parent = c, ![c].subcmds = Append(@, sub)]

RECURSIVE ancestorSubcmds(_, _)
\* the loop of updatePath: the children of parent and of its ancestors
ancestorSubcmds(cs, parent) ==
    IF parent = 0 THEN <<>>
    ELSE cs[parent].subcmds \o ancestorSubcmds(cs, cs[parent].parent)

\* runner.updatePath(cmd): the new cmdctx.path
updatePath(cs, c) == cs[c].subcmds \o ancestorSubcmds(cs, cs[c].parent)

\* walk that looks for the name among all the commands of the graph
walkAnywhere(cs, path, arg) ==
    LET match == {c \in DOMAIN cs : cs[c].Name = arg}
    IN  IF match = {} THEN 0
        ELSE CHOOSE c \in match : \A m \in match : c >= m

\* runner.walk(arg): the first command of the path named arg, or 0
walk(cs, path, arg) ==
    LET match == {k \in 1..Len(path) : cs[path[k]].Name = arg}
    IN  IF match = {} THEN 0
        ELSE path[CHOOSE k \in match : \A m \in match : k <= m]

NewParsedCmd(c, index) ==
    [args |-> <<>>, cmddef |-> c, index |-> index, operands |-> <<>>,
     parsedargs |-> <<>>, subcmds |-> <<>>]

\* an addParsedCmd that does not record where the name was found
addParsedCmdNoIndex(cs, parsed, c, index) ==
    Append([k \in 1..Len(parsed) |->
               IF cs[c].parent = parsed[k].cmddef
               THEN [parsed[k] EXCEPT !.subcmds = Append(@, c)]
               ELSE parsed[k]],
           NewParsedCmd(c, 0))

\* runner.addParsedCmd(cmd, index): cmdctx.parsed afterwards
addParsedCmd(cs, parsed, c, index) ==
    Append([k \in 1..Len(parsed) |->
               IF cs[c].parent = parsed[k].cmddef
               THEN [parsed[k] EXCEPT !.subcmds = Append(@, c)]
               ELSE parsed[k]],
           NewParsedCmd(c, index))

RECURSIVE walkArgv(_, _, _, _)
\* the loop of parseCommands from the 0-based argv position i on; last is
\* always the newest element of ctx.parsed
walkArgv(cs, av, i, ctx) ==
    IF i >= Len(av) THEN ctx
    ELSE LET a == av[i + 1]
             c == walk(cs, ctx.path, a)
         IN  IF c # 0
             THEN walkArgv(cs, av, i + 1,
                      [ctx EXCEPT !.parsed = addParsedCmd(cs, ctx.parsed, c, i),
                                  !.path = updatePath(cs, c)])
             ELSE walkArgv(cs, av, i + 1,
                      [ctx EXCEPT !.parsed[Len(ctx.parsed)].args = Append(@, a)])

\* a parseCommands that lists the commands named in argv only
parseCommandsNamed(cs, r, av) ==
    LET ctx == walkArgv(cs, av, 0,
                        [parsed |-> <<NewParsedCmd(r, 0)>>, path |-> cs[r].subcmds,
                         terminated |-> FALSE])
    IN  [ctx EXCEPT !.parsed = Tail(@)]

\* runner.parseCommands(): the new cmdctx
parseCommands(cs, r, av) ==
    walkArgv(cs, av, 0,
             [parsed |-> <<NewParsedCmd(r, 0)>>, path |-> cs[r].subcmds,
              terminated |-> FALSE])

\* the parsedArgContext parseArgRules starts a command with
NewArgCtx(cs, c) ==
    [args |-> cs[c].Args, last |-> 0, operands |-> <<>>, parsed |-> <<>>]

\* the rule chain parseArgs picks for the syntax
rulesOf(syn) == IF syn = "GNU" THEN getGnuRules ELSE getPosixRules

\* an ArgSyntax that is neither GNU nor POSIX
Unsupported == "99"

\* parseArgs that takes every syntax for a supported one
parseArgsAnySyntax(syn) == NoErr

\* runner.parseArgs(cmd) before it calls parseArgRules: the error of a
\* syntax it has no rule chain for
parseArgs(syn) ==
    IF syn \in {"GNU", "POSIX"} THEN NoErr ELSE Err("unsupported_syntax", syn)

\* Helper.Help(syn) of the command c with the default template
Help(cs, c) == <<"U", "s", "a", "g", "e", ":", " ">> \o cs[c].Name

\* runner.getHelpMsg(cmd)
getHelpMsg(cs, c) == IF cs[c].helper # "none" THEN Help(cs, c) ELSE <<>>

----------------------------------------------------------------------------
(* The programs and command lines the model runs                           *)

BAR == <<"b", "a", "r">>

FOO == <<"f", "o", "o">>

BAZ == <<"b", "a", "z">>

OptB == <<"-", "b">>

\* the definitions a utility may declare for its option "bar" / 'b'
DeclaredArgs ==
    {[Binder |-> b, IsHelp |-> FALSE, Name |-> BAR, Repeatable |-> rp,
      Required |-> rq, ShortName |-> "b"] :
        b \in {"bool", "string"}, rp \in BOOLEAN, rq \in BOOLEAN}

\* the tokens command lines are made of
Tokens ==
    {DD, OptB, <<"-", "h">>, <<"-", "b", "b">>, <<"-", "b", "x">>,
     DD \o BAR, DD \o BAR \o <<"=", "x">>, FOO, BAZ}

Argvs == UNION {[1..n -> Tokens] : n \in 0..MaxArgv}

\* the commands as declared, before AddSubcommand and NewRunner:
\* 1 is the utility "foo" with the option bar, 2 its subcommand "baz"
DeclaredCmds(rootRuns) ==
    [c \in 1..2 |->
        IF c = 1
        THEN [Name |-> FOO, parent |-> 0, subcmds |-> <<>>,
              Args |-> <<1>>, hasRun |-> rootRuns, helper |-> "none"]
        ELSE [Name |-> BAZ, parent |-> 0, subcmds |-> <<>>,
              Args |-> <<>>, hasRun |-> TRUE, helper |-> "none"]]

\* cmd.AddSubcommand(subcmd); NewRunner(cmd, syn)
BuiltCmds(defs, rootRuns) ==
    configureArgs(AddSubcommand(DeclaredCmds(rootRuns), defs, 1, 2, 3), defs, 1, 2)

\* the variables the binders point at, as the utility declares them
InitTarget(defs) ==
    [a \in DOMAIN defs |->
        IF defs[a].Binder = "bool" THEN defs[a].IsHelp ELSE <<>>]

NoResult == [kind |-> "none", err |-> NoErr, cmd |-> 0]

\* no ArgBinder is invoked outside Run
NoBinder == [kind |-> "none"]

\* parseCommands is not followed step by step
NoWalker == [i |-> 0, cmd |-> 0, parent |-> 0, cmdpath |-> <<>>, steps |-> 0]

Result(k, e, c) == [kind |-> k, err |-> e, cmd |-> c]

\* parse() that returns the error of a binder as it is
parseErrBareBind(err, c) ==
    IF err.kind = "help" THEN Result("help", NoErr, c)
    ELSE IF err.kind = "bind" THEN Result("bare", err, c)
    ELSE Result("wrapped", err, c)

\* what parse() returns for the error err of parseArgs on the command c:
\* an ErrHelp as it is, every other error wrapped with the command's help
parseErr(err, c) ==
    IF err.kind = "help" THEN Result("help", NoErr, c)
    ELSE Result("wrapped", err, c)

NoCmdCtx == [parsed |-> <<>>, path |-> <<>>, terminated |-> FALSE]

NoArgCtx == [args |-> <<>>, last |-> 0, operands |-> <<>>, parsed |-> <<>>]

Init ==
    /\ argv \in Argvs
    /\ root = 1
    /\ syntax \in {"GNU", "POSIX"}
    /\ argdefs \in {[a \in 1..3 |-> IF a = 1 THEN d ELSE HelpArg] : d \in DeclaredArgs}
    /\ declared = argdefs
    /\ cmds \in {BuiltCmds(argdefs, rr) : rr \in BOOLEAN}
    /\ target = InitTarget(argdefs)
    /\ ctxErr = FALSE
    /\ pc = "ready"
    /\ cmdctx = NoCmdCtx
    /\ argctx = NoArgCtx
    /\ pi = 0
    /\ ti = 0
    /\ rparsed = <<>>
    /\ ei = 0
    /\ ran = <<>>
    /\ result = NoResult
    /\ runs = 0
    /\ binder = NoBinder
    /\ walker = NoWalker

----------------------------------------------------------------------------
(* Programs with a deeper command tree, their own help definitions, no     *)
(* root command or an unsupported syntax                                   *)

\* the longest command line of these programs
MaxTreeArgv == 3

QUX == <<"q", "u", "x">>

OptH == <<"-", "h">>

\* a help definition the utility declares itself, without AddHelper
UserHelp ==
    [Binder |-> "nil", IsHelp |-> TRUE, Name |-> <<"h", "e", "l", "p">>,
     Repeatable |-> FALSE, Required |-> FALSE, ShortName |-> "h"]

\* an option of the utility that is no help definition and is named 'h'
HubArg ==
    [Binder |-> "bool", IsHelp |-> FALSE, Name |-> <<"h", "u", "b">>,
     Repeatable |-> FALSE, Required |-> FALSE, ShortName |-> "h"]

TreeTokens == {DD, OptB, OptH, BAZ, QUX}

TreeArgvs == UNION {[1..n -> TreeTokens] : n \in 0..MaxTreeArgv}

\* the commands as declared: 1 is the utility "foo" with the option bar,
\* 2 its subcommand "baz", which may declare the definition 3 of its own,
\* 3 the subcommand "qux" of baz
DeclaredTree(bazDeclares, bazRuns) ==
    [c \in 1..3 |->
        CASE c = 1 -> [Name |-> FOO, parent |-> 0, subcmds |-> <<>>,
                       Args |-> <<1>>, hasRun |-> TRUE, helper |-> "none"]
          [] c = 2 -> [Name |-> BAZ, parent |-> 0, subcmds |-> <<>>,
                       Args |-> IF bazDeclares THEN <<3>> ELSE <<>>,
                       hasRun |-> bazRuns, helper |-> "none"]
          [] c = 3 -> [Name |-> QUX, parent |-> 0, subcmds |-> <<>>,
                       Args |-> <<>>, hasRun |-> TRUE, helper |-> "none"]]

\* baz.AddSubcommand(qux); foo.AddSubcommand(baz); NewRunner(foo, syn)
BuiltTree(defs, bazDeclares, bazRuns) ==
    configureArgs(
        AddSubcommand(
            AddSubcommand(DeclaredTree(bazDeclares, bazRuns), defs, 2, 3, 4),
            defs, 1, 2, 5),
        defs, 1, 2)

\* the definitions of these programs: 1 the option bar, 3 what baz may
\* declare, 2, 4 and 5 the help definitions configureArgs creates
TreeArgs ==
    {[a \in 1..5 |-> CASE a = 1 -> d
                       [] a = 3 -> u
                       [] OTHER -> HelpArg] :
        d \in {x \in DeclaredArgs : ~x.Repeatable /\ ~x.Required},
        u \in {UserHelp, HubArg}}

InitTree ==
    /\ argv \in TreeArgvs
    /\ root \in {0, 1}
    /\ syntax \in {"GNU", "POSIX", Unsupported}
    /\ argdefs \in TreeArgs
    /\ declared = argdefs
    /\ cmds \in {BuiltTree(argdefs, bd, br) :
                    bd \in {b \in BOOLEAN : b \/ argdefs[3] = HubArg}, br \in BOOLEAN}
    /\ target = InitTarget(argdefs)
    /\ ctxErr = FALSE
    /\ pc = "ready"
    /\ cmdctx = NoCmdCtx
    /\ argctx = NoArgCtx
    /\ pi = 0
    /\ ti = 0
    /\ rparsed = <<>>
    /\ ei = 0
    /\ ran = <<>>
    /\ result = NoResult
    /\ runs = 0
    /\ binder = NoBinder
    /\ walker = NoWalker

----------------------------------------------------------------------------
(* Run                                                                     *)

\* the parsedCmd parse() is at
CurCmd == cmdctx.parsed[pi]

\* the caller cancels the context before it calls Run.  Run reads the
\* context only between the actions, so every later cancellation is one
\* that happens while an action runs (see ExecCmd).
Cancel ==
    /\ pc = "ready"
    /\ ~ctxErr
    /\ ctxErr' = TRUE
    /\ UNCHANGED <<argv, root, syntax, cmds, declared, argdefs, target, pc, cmdctx, argctx,
                   pi, ti, rparsed, ei, ran, result, runs, binder, walker>>

\* Run is called: parse() calls parseCommands() and enters its loop, where
\* parseArgRules sets up the context of the first command
RunStart ==
    /\ pc \in {"ready", "done"}
    /\ runs < MaxRuns
    /\ runs = 0 \/ Len(argv) <= MaxRerunArgv
    /\ result.kind # "panic"
    /\ runs' = runs + 1
    /\ ran' = <<>>
    /\ IF root = 0
       THEN /\ pc' = "done"
            /\ result' = Result("config", Err("root_not_set", <<>>), 0)
            /\ UNCHANGED <<cmdctx, argctx, pi, ti, ei>>
       ELSE /\ cmdctx' = parseCommands(cmds, root, argv)
            /\ pi' = 1
            /\ ti' = 1
            /\ ei' = 0
            /\ IF parseArgs(syntax) # NoErr
               THEN /\ pc' = "done"
                    /\ result' = parseErr(parseArgs(syntax), root)
                    /\ argctx' = argctx
               ELSE /\ pc' = "parse"
                    /\ result' = NoResult
                    /\ argctx' = NewArgCtx(cmds, root)
    /\ UNCHANGED <<argv, root, syntax, cmds, declared, argdefs, target, ctxErr, rparsed,
                   binder, walker>>

\* what the handling of errTerm in parseArgRules does with the token group
\* args of the command matched at index, for the signal's index i:
\* out of range, or the operands to append
termOperands(av, args, index, i) ==
    LET argpos == index + i
    IN  IF argpos >= Len(args) THEN [panic |-> TRUE, operands |-> <<>>]
        ELSE IF Len(args[argpos + 1]) > 1
        THEN IF argpos + 1 > Len(av) THEN [panic |-> TRUE, operands |-> <<>>]
             ELSE [panic |-> FALSE, operands |-> From(av, argpos + 1)]
        ELSE [panic |-> FALSE, operands |-> <<>>]

RECURSIVE parseArgRules(_, _, _, _, _, _, _)
\* parseArgRules(cmd, rules) as a whole, from the token at t (1-based) of
\* cmd.args on: how the loop ends, and the parsed arguments and operands it
\* has then
parseArgRules(rules, av, args, index, t, ctx, defs) ==
    IF t > Len(args)
    THEN [outcome |-> "parsed", err |-> NoErr,
          parsed |-> ctx.parsed, operands |-> ctx.operands]
    ELSE LET o == RunRules(rules, 1, args[t], t - 1, ctx, defs)
         IN  IF o.err # NoErr /\ o.err.kind = "term"
             THEN LET tm == termOperands(av, args, index, o.err.index)
                  IN  IF tm.panic
                      THEN [outcome |-> "panic", err |-> NoErr,
                            parsed |-> o.ctx.parsed, operands |-> o.ctx.operands]
                      ELSE [outcome |-> "parsed", err |-> NoErr,
                            parsed |-> o.ctx.parsed,
                            operands |-> o.ctx.operands \o tm.operands]
             ELSE IF o.err # NoErr
             THEN [outcome |-> "error", err |-> o.err,
                   parsed |-> o.ctx.parsed, operands |-> o.ctx.operands]
             ELSE IF o.skip
             THEN parseArgRules(rules, av, args, index, t + 1, o.ctx, o.defs)
             ELSE [outcome |-> "error", err |-> Err("unknown", o.arg),
                   parsed |-> o.ctx.parsed, operands |-> o.ctx.operands]

\* one iteration of the loop of parseArgRules over cmd.args
ParseToken ==
    /\ pc = "parse"
    /\ ~cmdctx.terminated
    /\ ti <= Len(CurCmd.args)
    /\ LET i == ti - 1
           o == RunRules(rulesOf(syntax), 1, CurCmd.args[ti], i, argctx, argdefs)
       IN  /\ argdefs' = o.defs
           /\ IF o.err # NoErr /\ o.err.kind = "term"
              THEN LET t == termOperands(argv, CurCmd.args, CurCmd.index, o.err.index)
                   IN  /\ cmdctx' = [cmdctx EXCEPT !.terminated = TRUE]
                       /\ IF t.panic
                          THEN /\ pc' = "done"
                               /\ result' = Result("panic", NoErr, CurCmd.cmddef)
                               /\ argctx' = o.ctx
                               /\ ti' = ti
                          ELSE /\ pc' = "parse"
                               /\ result' = result
                               /\ argctx' = [o.ctx EXCEPT !.operands = @ \o t.operands]
                               /\ ti' = ti + 1
              ELSE IF o.err # NoErr
              THEN /\ pc' = "done"
                   /\ result' = parseErr(o.err, CurCmd.cmddef)
                   /\ argctx' = o.ctx
                   /\ UNCHANGED <<cmdctx, ti>>
              ELSE IF o.skip
              THEN /\ argctx' = o.ctx
                   /\ ti' = ti + 1
                   /\ UNCHANGED <<pc, result, cmdctx>>
              ELSE /\ pc' = "done"
                   /\ result' = parseErr(Err("unknown", o.arg), CurCmd.cmddef)
                   /\ argctx' = o.ctx
                   /\ UNCHANGED <<cmdctx, ti>>
    /\ UNCHANGED <<argv, root, syntax, cmds, declared, target, ctxErr, pi, rparsed, ei, ran, runs, binder, walker>>

\* a parse() whose loop ends after the first command
parseStopsAtFirst(cc, k) == FALSE

\* the loop of parse() goes on after the k-th discovered command: there is
\* a next one and parsing has not been terminated
parseContinues(cc, k) == k < Len(cc.parsed) /\ ~cc.terminated

\* the end of parseArgRules (the results are stored in the command and
\* bindArgs runs) and the rest of the iteration of parse(): an error is
\* returned, or the command is added to runner.parsed and the next command
\* is started; after the last command Run goes on to execute
BindArgs ==
    /\ pc = "parse"
    /\ cmdctx.terminated \/ ti > Len(CurCmd.args)
    /\ LET cmd  == [CurCmd EXCEPT !.parsedargs = argctx.parsed,
                                  !.operands = argctx.operands]
           b    == bindArgs(argdefs, cmd.parsedargs, 1, target)
           more == parseContinues(cmdctx, pi)
       IN  /\ cmdctx' = [cmdctx EXCEPT !.parsed[pi] = cmd]
           /\ target' = b.target
           /\ IF b.err # NoErr
              THEN /\ pc' = "done"
                   /\ result' = parseErr(b.err, cmd.cmddef)
                   /\ UNCHANGED <<rparsed, pi, ti, argctx, ei>>
              ELSE /\ rparsed' = Append(rparsed, cmd)
                   /\ IF more
                      THEN /\ pi' = pi + 1
                           /\ ti' = 1
                           /\ argctx' = NewArgCtx(cmds, cmdctx.parsed[pi + 1].cmddef)
                           /\ UNCHANGED <<pc, result, ei>>
                      ELSE /\ IF Len(rparsed') = 0
                              THEN pc' = "done" /\ result' = Result("nocmds", NoErr, 0)
                              ELSE pc' = "exec" /\ result' = result
                           /\ ei' = 1
                           /\ UNCHANGED <<pi, ti, argctx>>
    /\ UNCHANGED <<argv, root, syntax, cmds, declared, argdefs, ctxErr, ran, runs, binder, walker>>

\* execStep without the check of the context
execStepNoPoll(hasRun, cancelled) ==
    IF ~hasRun THEN "skip" ELSE "invoke"

\* execStep with the check of the context inverted
execStepInverted(hasRun, cancelled) ==
    IF ~hasRun THEN "skip"
    ELSE IF cancelled THEN "invoke"
    ELSE "return"

\* what an iteration of the loop of Run does with a command: it skips a
\* command without a Run function, returns the context's error, or calls Run
execStep(hasRun, cancelled) ==
    IF ~hasRun THEN "skip"
    ELSE IF cancelled THEN "return"
    ELSE "invoke"

\* one iteration of the loop of Run over runner.parsed; the context may be
\* cancelled, by the action or by anyone else, while the action runs
ExecCmd ==
    /\ pc = "exec"
    /\ ei <= Len(rparsed)
    /\ LET cmd  == rparsed[ei]
           step == execStep(cmds[cmd.cmddef].hasRun, ctxErr)
       IN  CASE step = "skip" ->
                    /\ ei' = ei + 1
                    /\ UNCHANGED <<pc, result, ran, ctxErr>>
             [] step = "return" ->
                    /\ pc' = "done"
                    /\ result' = Result("ctx", NoErr, 0)
                    /\ UNCHANGED <<ei, ran, ctxErr>>
             [] step = "invoke" ->
                    /\ ran' = Append(ran, [cmd |-> cmd.cmddef, operands |-> cmd.operands])
                    /\ ei' = ei + 1
                    /\ \E c \in BOOLEAN : ctxErr' = (ctxErr \/ c)
                    /\ UNCHANGED <<pc, result>>
    /\ UNCHANGED <<argv, root, syntax, cmds, declared, argdefs, target, cmdctx, argctx,
                   pi, ti, rparsed, runs, binder, walker>>

\* the loop of Run is over: Run returns nil
Return ==
    /\ pc = "exec"
    /\ ei > Len(rparsed)
    /\ pc' = "done"
    /\ result' = Result("nil", NoErr, 0)
    /\ UNCHANGED <<argv, root, syntax, cmds, declared, argdefs, target, ctxErr, cmdctx, argctx,
                   pi, ti, rparsed, ei, ran, runs, binder, walker>>

Next == Cancel \/ RunStart \/ ParseToken \/ BindArgs \/ ExecCmd \/ Return

Spec == Init /\ [][Next]_vars

SpecTree == InitTree /\ [][Next]_vars

----------------------------------------------------------------------------
(* A caller that invokes the Bind method of one ArgBinder directly, as the *)
(* binder tests do: any binder kind, any value of the variable it points   *)
(* at, any string, call after call                                         *)

\* the most list elements in a string Bind is called with
MaxElems == 2

\* the list elements of the strings Bind is called with: nothing, a number,
\* a negative number, a number after a space
ValElems == {<<>>, <<"1">>, <<"-", "2">>, <<" ", "1">>}

\* the strings Bind is called with: the elements joined by commas
BindVals == {Join(es, ",") : es \in UNION {[1..n -> ValElems] : n \in 1..MaxElems}}

\* what the variable a binder points at holds before the first Bind
Defaults(kind) ==
    CASE kind = "bool"       -> {FALSE, TRUE}
      [] kind = "string"     -> {<<>>, <<"d">>}
      [] kind = "stringlist" -> {<<>>, << <<"d">>, <<"e">> >>}
      [] kind \in ScalarKinds -> {0, 7}
      [] kind \in ListKinds   -> {<<>>, <<7, 8, 9>>}

InitBind ==
    /\ argv = <<>>
    /\ root = 0
    /\ syntax = "GNU"
    /\ cmds = <<>>
    /\ argdefs = <<>>
    /\ declared = <<>>
    /\ target = <<>>
    /\ ctxErr = FALSE
    /\ pc = "ready"
    /\ cmdctx = NoCmdCtx
    /\ argctx = NoArgCtx
    /\ pi = 0
    /\ ti = 0
    /\ rparsed = <<>>
    /\ ei = 0
    /\ ran = <<>>
    /\ result = NoResult
    /\ runs = 0
    /\ walker = NoWalker
    /\ \E kind \in BinderKinds : \E d \in Defaults(kind) :
          binder = [kind |-> kind, called |-> FALSE, before |-> d, val |-> <<>>,
                    err |-> NoErr, target |-> d]

\* b.Bind("-b", val): before is the variable as the call found it, target
\* the variable as the call left it
BindCall ==
    /\ binder.kind \in BinderKinds
    /\ \E val \in BindVals :
          LET b == Bind(binder.kind, binder.target, <<"-", "b">>, val)
          IN  binder' = [kind |-> binder.kind, called |-> TRUE, before |-> binder.target,
                         val |-> val, err |-> b.err, target |-> b.val]
    /\ UNCHANGED <<argv, root, syntax, cmds, argdefs, declared, target, ctxErr, pc, cmdctx,
                   argctx, pi, ti, rparsed, ei, ran, result, runs, walker>>

NextBind == BindCall

SpecBind == InitBind /\ [][NextBind]_vars

----------------------------------------------------------------------------
(* A utility that links its commands with any AddSubcommand calls, builds  *)
(* the runner on the first of them and calls Run, which is followed        *)
(* through the loops of parseCommands and updatePath                       *)

\* how many AddSubcommand calls the utility makes
MaxAdds == 2

\* the longest command line of these utilities
MaxBuildArgv == 3

BuildTokens == {FOO, BAZ, QUX, OptH}

BuildArgvs == UNION {[1..n -> BuildTokens] : n \in 0..MaxBuildArgv}

\* the commands "foo", "baz" and "qux" before any AddSubcommand call
UnlinkedCmds ==
    [c \in 1..3 |->
        [Name |-> CASE c = 1 -> FOO [] c = 2 -> BAZ [] c = 3 -> QUX,
         parent |-> 0, subcmds |-> <<>>, Args |-> <<>>, hasRun |-> TRUE,
         helper |-> "none"]]

RECURSIVE SumLen(_, _)
\* the number of AddSubcommand calls made so far: each appended one child
SumLen(cs, c) == IF c = 0 THEN 0 ELSE Len(cs[c].subcmds) + SumLen(cs, c - 1)

InitBuild ==
    /\ argv \in BuildArgvs
    /\ root = 1
    /\ syntax = "GNU"
    /\ argdefs = [a \in 1..3 |-> HelpArg]
    /\ declared = argdefs
    /\ cmds = UnlinkedCmds
    /\ target = InitTarget(argdefs)
    /\ ctxErr = FALSE
    /\ pc = "build"
    /\ cmdctx = NoCmdCtx
    /\ argctx = NoArgCtx
    /\ pi = 0
    /\ ti = 0
    /\ rparsed = <<>>
    /\ ei = 0
    /\ ran = <<>>
    /\ result = NoResult
    /\ runs = 0
    /\ binder = NoBinder
    /\ walker = NoWalker

\* c.AddSubcommand(sub), for any two commands of the utility
AddSub ==
    /\ pc = "build"
    /\ SumLen(cmds, Len(cmds)) < MaxAdds
    /\ \E c \in DOMAIN cmds : \E sub \in DOMAIN cmds :
          cmds' = AddSubcommand(cmds, argdefs, c, sub, sub)
    /\ UNCHANGED <<argv, root, syntax, argdefs, declared, target, ctxErr, pc, cmdctx, argctx,
                   pi, ti, rparsed, ei, ran, result, runs, binder, walker>>

\* NewRunner(root, syntax)
NewRunner ==
    /\ pc = "build"
    /\ pc' = "ready"
    /\ cmds' = configureArgs(cmds, argdefs, root, root)
    /\ UNCHANGED <<argv, root, syntax, argdefs, declared, target, ctxErr, cmdctx, argctx,
                   pi, ti, rparsed, ei, ran, result, runs, binder, walker>>

\* Run is called and parseCommands sets up the context and enters its loop
WalkStart ==
    /\ pc = "ready"
    /\ runs = 0
    /\ runs' = 1
    /\ pc' = "walk"
    /\ cmdctx' = [parsed |-> <<NewParsedCmd(root, 0)>>, path |-> cmds[root].subcmds,
                  terminated |-> FALSE]
    /\ walker' = NoWalker
    /\ UNCHANGED <<argv, root, syntax, cmds, argdefs, declared, target, ctxErr, argctx,
                   pi, ti, rparsed, ei, ran, result, binder>>

\* one iteration of the loop of parseCommands, up to the loop of updatePath
\* when walk finds the command
WalkToken ==
    /\ pc = "walk"
    /\ walker.i < Len(argv)
    /\ LET a == argv[walker.i + 1]
           c == walk(cmds, cmdctx.path, a)
       IN  IF c # 0
           THEN /\ pc' = "path"
                /\ walker' = [walker EXCEPT !.cmd = c, !.parent = cmds[c].parent,
                                            !.cmdpath = cmds[c].subcmds, !.steps = 0]
                /\ cmdctx' = cmdctx
           ELSE /\ pc' = "walk"
                /\ walker' = [walker EXCEPT !.i = @ + 1]
                /\ cmdctx' = [cmdctx EXCEPT !.parsed[Len(cmdctx.parsed)].args = Append(@, a)]
    /\ UNCHANGED <<argv, root, syntax, cmds, argdefs, declared, target, ctxErr, argctx,
                   pi, ti, rparsed, ei, ran, result, runs, binder>>

\* an updatePath that leaves the children of the ancestors out
appendNothing(cmdpath, cs, parent) == cmdpath

\* cmdpath = append(cmdpath, parent.subcmds...)
appendSubcmds(cmdpath, cs, parent) == cmdpath \o cs[parent].subcmds

\* one iteration of the loop of updatePath (followed for one iteration more
\* than there are commands); after the loop walk returns the command and
\* parseCommands adds it
PathStep ==
    /\ pc = "path"
    /\ IF walker.parent # 0
       THEN /\ walker.steps <= Len(cmds)
            /\ walker' = [walker EXCEPT !.cmdpath = appendSubcmds(@, cmds, walker.parent),
                                        !.parent = cmds[walker.parent].parent,
                                        !.steps = @ + 1]
            /\ UNCHANGED <<pc, cmdctx>>
       ELSE /\ pc' = "walk"
            /\ cmdctx' = [cmdctx EXCEPT
                             !.path = walker.cmdpath,
                             !.parsed = addParsedCmd(cmds, cmdctx.parsed, walker.cmd, walker.i)]
            /\ walker' = [NoWalker EXCEPT !.i = walker.i + 1]
    /\ UNCHANGED <<argv, root, syntax, cmds, argdefs, declared, target, ctxErr, argctx,
                   pi, ti, rparsed, ei, ran, result, runs, binder>>

\* the loop of parseCommands is over
WalkEnd ==
    /\ pc = "walk"
    /\ walker.i = Len(argv)
    /\ pc' = "walked"
    /\ UNCHANGED <<argv, root, syntax, cmds, argdefs, declared, target, ctxErr, cmdctx, argctx,
                   pi, ti, rparsed, ei, ran, result, runs, binder, walker>>

NextBuild == AddSub \/ NewRunner \/ WalkStart \/ WalkToken \/ PathStep \/ WalkEnd

SpecBuild == InitBuild /\ [][NextBuild]_vars

----------------------------------------------------------------------------
(* Properties                                                              *)

\* the commands the current Run has invoked, in order
RanCmds == [k \in 1..Len(ran) |-> ran[k].cmd]

\* the 0-based argv position of the token parseArgRules is at: the root's
\* tokens start argv, a subcommand's tokens follow its name
TokenPos == IF pi = 1 THEN ti - 1 ELSE CurCmd.index + ti

\* C1: when a "--" token terminates parsing inside the token group of a
\* command (the root or a subcommand), that command's operand list receives
\* exactly the argv tokens strictly after that "--", in order.
C1_TermOperands ==
    [][(pc = "parse" /\ ~cmdctx.terminated /\ cmdctx'.terminated)
          => (pc' = "parse"
              /\ argctx'.operands = argctx.operands \o From(argv, TokenPos + 1))]_vars

\* the README's example: foo declares the boolean option bar / 'b', has the
\* subcommand baz, and is run as "foo -b baz" with a context nobody cancels
ScenarioA ==
    /\ argv = <<FOO, OptB, BAZ>>
    /\ declared[1].Binder = "bool" /\ ~declared[1].Required /\ ~declared[1].Repeatable
    /\ cmds[1].hasRun /\ cmds[2].hasRun
    /\ runs = 1 /\ ~ctxErr

\* C2: with argv ["foo","-b","baz"], a root command "foo" with a boolean
\* option 'b' and a subcommand "baz" with an action, Run returns no error,
\* the actions of foo and baz run, foo first, and the bound boolean is true.
C2_ReadmeExample ==
    (ScenarioA /\ pc = "done")
        => (result.kind = "nil" /\ RanCmds = <<1, 2>> /\ target[1] = TRUE)

\* a help argument is among the parsed arguments of the k-th discovered command
HelpParsedIn(k) ==
    \E j \in 1..Len(cmdctx.parsed[k].parsedargs) :
        argdefs[cmdctx.parsed[k].parsedargs[j].argdef].IsHelp

\* every argument parsed before the first help argument of pargs passes the
\* required-check and its binder
EarlierArgsPass(pargs) ==
    \A j \in 1..Len(pargs) :
        (\A m \in 1..j : ~argdefs[pargs[m].argdef].IsHelp)
            => /\ validateReqArg(argdefs, pargs[j]) = NoErr
               /\ \/ argdefs[pargs[j].argdef].Binder = "nil"
                  \/ Bind(argdefs[pargs[j].argdef].Binder, target[pargs[j].argdef],
                          pargs[j].raw, pargs[j].val).err = NoErr

\* C3 as stated: if a help argument is among the parsed arguments of any
\* discovered command, Run returns the Help result and no action of any
\* command is executed in that Run.  Stated for the utilities that declare
\* their option required, where posixOpt's write to Required changes nothing.
C3_HelpResult ==
    \A k \in 1..Len(cmdctx.parsed) :
        (declared[1].Required /\ HelpParsedIn(k))
            => /\ pc = "done"
               /\ result = Result("help", NoErr, cmdctx.parsed[k].cmddef)
               /\ ran = <<>>

\* C3 (amended): if a help argument is among the parsed arguments of a
\* discovered command, Run returns an error carrying that command's help and
\* no action of any command is executed in that Run; the error is the Help
\* result itself unless an argument parsed before the help argument in that
\* command fails the required-check or its binder, and then it is that
\* failure wrapped with the help.
C3_HelpStopsRun ==
    \A k \in 1..Len(cmdctx.parsed) :
        HelpParsedIn(k)
            => /\ pc = "done"
               /\ ran = <<>>
               /\ result.cmd = cmdctx.parsed[k].cmddef
               /\ result.kind = IF EarlierArgsPass(cmdctx.parsed[k].parsedargs)
                                THEN "help" ELSE "wrapped"
               /\ result.kind = "wrapped" => result.err.kind \in {"missing", "bind"}

\* the help argument is parsed on baz after the root, which has an action,
\* was parsed and bound
C3_Witness ==
    /\ pc = "done" /\ runs = 1
    /\ Len(cmdctx.parsed) = 2 /\ HelpParsedIn(2)
    /\ Len(rparsed) = 1 /\ cmds[1].hasRun
    /\ result = Result("help", NoErr, 2)

\* C4: under GNU and under POSIX, if the tokens of one command name the same
\* non-repeatable definition twice (by long name, by short name, in any
\* combination), Run fails with a non-repeatable-option error.  Stated for
\* the boolean option named by two tokens, each "-b" or (under GNU) "--bar".
C4_RepeatFails ==
    (/\ pc = "done" /\ runs = 1
     /\ declared[1].Binder = "bool" /\ ~declared[1].Repeatable /\ ~declared[1].Required
     /\ Len(argv) = 2
     /\ \A k \in 1..2 : argv[k] = OptB \/ (syntax = "GNU" /\ argv[k] = DD \o BAR))
        => (result.kind = "wrapped" /\ result.err.kind = "non_repeatable")

\* the token names the option bar / 'b'
NamesBar(tok) == HasPrefix(tok, OptB) \/ HasPrefix(tok, DD \o BAR)

\* C5: if a required non-boolean option does not appear at all among the
\* tokens of its command, Run fails with a missing-argument error and the
\* command's action is not executed.
C5_RequiredOmitted ==
    (/\ pc \in {"exec", "done"}
     /\ declared[1].Required /\ declared[1].Binder # "bool"
     /\ \A k \in 1..Len(cmdctx.parsed[1].args) : ~NamesBar(cmdctx.parsed[1].args[k]))
        => /\ \A k \in 1..Len(ran) : ran[k].cmd # 1
           /\ pc = "done" => (result.kind = "wrapped" /\ result.err.kind = "missing")

\* C6: a missing-argument error names a non-boolean option whose definition
\* is declared required; an option whose definition is not declared
\* required, or whose binder is boolean, never causes one.
C6_MissingOnlyIfRequired ==
    (result.kind = "wrapped" /\ result.err.kind = "missing")
        => \E a \in DOMAIN declared :
              /\ declared[a].Name = result.err.text
              /\ declared[a].Required
              /\ declared[a].Binder # "bool"

\* C7: in both styles, after a boolean option is matched, the next token of
\* the command is never stored as that option's resolved value.
C7_BoolTakesNoValue ==
    [][(/\ pc = "parse" /\ pc' = "parse" /\ pi' = pi /\ ti' = ti + 1
        /\ argctx.last # 0
        /\ isBoolArg(argdefs, LastDef(argctx))
        /\ LastVal(argctx) = <<>>)
          => argctx'.parsed[argctx.last].val # CurCmd.args[ti]]_vars

\* C8: within one call to Run, the action of each Command is invoked at most
\* once, for every argv and for every call of Run on the same runner.
C8_AtMostOnce ==
    \A c \in DOMAIN cmds : Cardinality({k \in 1..Len(ran) : ran[k].cmd = c}) <= 1

\* C9: the executor checks the context before each action invocation: when
\* the context reports an error there, no further action is invoked in that
\* Run, Run returns the context's error, and the actions that already ran
\* stay as they are.
C9_PollBeforeAction ==
    [][(pc = "exec" /\ ctxErr)
          => /\ ran' = ran
             /\ (ei <= Len(rparsed) /\ cmds[rparsed[ei].cmddef].hasRun)
                    => (pc' = "done" /\ result' = Result("ctx", NoErr, 0))]_vars

\* the context was cancelled while the first action ran, and the check
\* before the second action made Run return the context's error
C9_Witness ==
    /\ pc = "done" /\ result.kind = "ctx" /\ ctxErr
    /\ RanCmds = <<1>> /\ Len(rparsed) = 2

\* a command Run is to execute has an action
SomeAction == \E k \in 1..Len(rparsed) : cmds[rparsed[k].cmddef].hasRun

\* C10 as stated: if the context is already cancelled when Run is called and
\* parsing and binding succeed, Run returns the cancellation cause and
\* invokes no action.
C10_PreCancelled ==
    [][ctxErr
          => /\ ran' = ran \/ ran' = <<>>
             /\ (pc = "exec" /\ pc' = "done" /\ ran = <<>>)
                    => result'.kind = "ctx"]_vars

\* C10 (amended): if the context is already cancelled when Run is called,
\* parsing and binding succeed and at least one of the parsed commands has
\* an action, Run returns the cancellation cause; whether or not a command
\* has an action, Run invokes none.
C10_PreCancelledWithAction ==
    [][ctxErr
          => /\ ran' = ran \/ ran' = <<>>
             /\ (pc = "exec" /\ pc' = "done" /\ ran = <<>> /\ SomeAction)
                    => result'.kind = "ctx"]_vars

\* the caller cancelled the context before its first call of Run, parsing
\* succeeded, and Run returned the context's error without invoking anything
C10_Witness ==
    /\ pc = "done" /\ runs = 1 /\ ctxErr
    /\ result.kind = "ctx" /\ ran = <<>> /\ Len(rparsed) = 2

\* the command has an action
HasAction(c) == cmds[c].hasRun

\* the commands with an action among the first n commands the walker
\* discovered in the current Run, in the order of their discovery
DiscoveredActions(n) ==
    SelectSeq([k \in 1..n |-> cmdctx.parsed[k].cmddef], HasAction)

IsPrefix(s, t) == Len(s) <= Len(t) /\ SubSeq(t, 1, Len(s)) = s

\* C11: actions are executed in the order the token walker discovered their
\* commands, the root first and then the subcommands by increasing argv
\* position; a command with no action is skipped without stopping the
\* commands after it.
C11_DiscoveryOrder ==
    (pc \in {"exec", "done"} /\ root # 0)
        => /\ cmdctx.parsed[1].cmddef = root
           /\ \A k \in 3..Len(cmdctx.parsed) :
                  cmdctx.parsed[k - 1].index < cmdctx.parsed[k].index
           /\ IsPrefix(RanCmds, DiscoveredActions(pi))
           /\ result.kind = "nil" => RanCmds = DiscoveredActions(pi)

\* C12: after a "--" terminates parsing inside command C, no later token of
\* the Run is classified as an option and no command discovered after C is
\* parsed, bound or executed; C itself and the commands parsed before C are
\* still bound and executed: the step that terminates goes on to the
\* binding of C, the next step binds C without classifying a token or
\* moving to another command, and it hands C to the executor unless the
\* binding fails.
C12_TermStopsRun ==
    [][/\ (pc = "parse" /\ ~cmdctx.terminated /\ cmdctx'.terminated)
            => pc' = "parse"
       /\ (pc = "parse" /\ cmdctx.terminated)
            => /\ argctx'.parsed = argctx.parsed
               /\ pi' = pi
               /\ pc' \in {"exec", "done"}
               /\ pc' = "exec"
                    => /\ rparsed' = Append(rparsed, cmdctx'.parsed[pi])
                       /\ cmdctx'.parsed[pi].cmddef = CurCmd.cmddef
               /\ pc' = "done" => result'.kind \in {"help", "wrapped"}
       /\ (pc = "exec" /\ cmdctx.terminated /\ ran' # ran)
            => \E k \in 1..pi : ran'[Len(ran')].cmd = cmdctx.parsed[k].cmddef]_vars

\* C13: in both styles, every "--" token that the rule chain reaches is
\* either bound as the value of the immediately preceding option that still
\* has an empty value, or it terminates the Run; it never produces an
\* unknown-argument error and never becomes an operand (a termination adds
\* no more operands than there are tokens after the "--").
C13_DashDash ==
    [][(pc = "parse" /\ ~cmdctx.terminated /\ ti <= Len(CurCmd.args)
        /\ CurCmd.args[ti] = DD)
          => \/ /\ argctx.last # 0
                /\ LastVal(argctx) = <<>>
                /\ argctx' = SetLastVal(argctx, DD)
                /\ ~cmdctx'.terminated
                /\ pc' = "parse"
             \/ /\ cmdctx'.terminated
                /\ pc' = "parse"
                /\ Len(argctx'.operands) - Len(argctx.operands)
                       <= Len(argv) - (TokenPos + 1)]_vars

\* no rule of the chain consumes the token tok at the 0-based position i of
\* its command, and none returns an error
NoRuleConsumes(tok, i) ==
    \A k \in 1..Len(rulesOf(syntax)) :
        LET o == ApplyRule(rulesOf(syntax)[k], tok, i, argctx, argdefs)
        IN  ~o.skip /\ o.err = NoErr

\* C14: if a residual token of a command is consumed by no rule of the
\* active style, Run fails with an error that names the token and is
\* wrapped with the help of the command the token belongs to, and no action
\* runs.
C14_UnknownToken ==
    [][(pc = "parse" /\ ~cmdctx.terminated /\ ti <= Len(CurCmd.args)
        /\ NoRuleConsumes(CurCmd.args[ti], ti - 1))
          => /\ pc' = "done"
             /\ result' = Result("wrapped", Err("unknown", CurCmd.args[ti]),
                                 CurCmd.cmddef)
             /\ ran' = <<>>
             /\ rparsed' = rparsed]_vars

\* "-b" or "--bar" was given to baz, which has no such definition, after the
\* root, which has an action, was parsed and bound
C14_Witness ==
    /\ pc = "done" /\ runs = 1
    /\ result.kind = "wrapped" /\ result.err.kind = "unknown"
    /\ result.err.text \in {OptB, DD \o BAR}
    /\ result.cmd = 2 /\ getHelpMsg(cmds, result.cmd) = Help(cmds, 2)
    /\ Len(rparsed) = 1 /\ cmds[1].hasRun /\ ran = <<>>

\* the error bindArgs returns for the command parse() is at
BindErr == bindArgs(argdefs, argctx.parsed, 1, target).err

\* parseArgRules has reached the binding of the command and a binder
\* rejects a value
BinderRejects ==
    /\ pc = "parse"
    /\ cmdctx.terminated \/ ti > Len(CurCmd.args)
    /\ BindErr.kind = "bind"

\* C15 as stated: when a binder rejects a value, Run returns that conversion
\* error unwrapped: the binder's error itself, without the command's help.
C15_BindErrBare ==
    [][BinderRejects
          => (pc' = "done" /\ result' = Result("bare", BindErr, CurCmd.cmddef))]_vars

\* C15 (amended): when a binder rejects a value, Run returns that conversion
\* error wrapped with the help of the command (an ErrHelp), exactly like the
\* syntax and the missing-argument errors, and no action runs.
C15_BindErrWrapped ==
    [][BinderRejects
          => /\ pc' = "done"
             /\ result' = Result("wrapped", BindErr, CurCmd.cmddef)
             /\ ran' = <<>>]_vars

\* the binder of the root's boolean option rejected the value it was given
C15_Witness ==
    /\ pc = "done" /\ runs = 1
    /\ result.kind = "wrapped" /\ result.err.kind = "bind"
    /\ result.cmd = 1 /\ declared[1].Binder = "bool"
    /\ getHelpMsg(cmds, result.cmd) # <<>>
    /\ ran = <<>>

\* the token is written as short options: "-" and at least one character
IsShortForm(tok) == HasPrefix(tok, D) /\ ~HasPrefix(tok, DD) /\ Len(tok) > 1

\* the position in tok of the first character that names a non-boolean
\* definition of the command, or 0
FirstValued(tok) ==
    LET ps == {p \in 2..Len(tok) :
                  /\ posixMatch(tok[p], argctx, argdefs) # 0
                  /\ ~isBoolArg(argdefs, posixMatch(tok[p], argctx, argdefs))}
    IN  IF ps = {} THEN 0 ELSE CHOOSE p \in ps : \A q \in ps : p <= q

\* the value the binder of the definition a is invoked with last, going
\* through pargs in match order, or <<>>
RECURSIVE LastValueOf(_, _)
LastValueOf(a, pargs) ==
    IF pargs = <<>> THEN <<>>
    ELSE LET pa == pargs[Len(pargs)]
         IN  IF pa.argdef = a /\ pa.val # <<>> THEN pa.val
             ELSE LastValueOf(a, SubSeq(pargs, 1, Len(pargs) - 1))

HelpLike(a) ==
    a.IsHelp \/ a.Name = <<"h", "e", "l", "p">> \/ a.Name = <<"h">> \/ a.ShortName = "h"

\* the definitions the utility declared for the command c: those of its
\* arguments that configureArgs did not create
DeclaredOf(c) == SelectSeq(cmds[c].Args, LAMBDA a : declared[a] # HelpArg)

\* the command c has an is-help argument
HasIsHelp(c) == \E k \in 1..Len(cmds[c].Args) : declared[cmds[c].Args[k]].IsHelp

\* the command c has received the injected help definition
Injected(c) ==
    /\ Len(cmds[c].Args) = Len(DeclaredOf(c)) + 1
    /\ declared[cmds[c].Args[Len(cmds[c].Args)]] = HelpArg
    /\ cmds[c].helper = "default"

\* parse() ended at a command whose only token is "-h"
OnlyHelpToken ==
    /\ pc = "done" /\ root # 0 /\ parseArgs(syntax) = NoErr
    /\ CurCmd.args = <<OptH>>

C18_HelpText ==
    result.kind = "help"
        => /\ getHelpMsg(cmds, result.cmd) # <<>>
           /\ getHelpMsg(cmds, result.cmd) = Help(cmds, CurCmd.cmddef)
           /\ HelpParsedIn(pi)

RECURSIVE AncestorsOrSelf(_)
\* the command c, its parent, the parent's parent, ...
AncestorsOrSelf(c) ==
    IF c = 0 THEN {} ELSE {c} \cup AncestorsOrSelf(cmds[c].parent)

\* C19: a subcommand's action is executed in a Run only if its parent
\* command was also parsed in the same Run and precedes it in execution
\* order; a token equal to a command's name does not start that command
\* unless it is a child of the command the walker is in or of one of that
\* command's ancestors.
C19_ParentFirst ==
    (root # 0 /\ pc # "ready")
        => /\ \A k \in 2..Len(cmdctx.parsed) :
                  /\ cmds[cmdctx.parsed[k].cmddef].parent
                         \in AncestorsOrSelf(cmdctx.parsed[k - 1].cmddef)
                  /\ \E j \in 1..(k - 1) :
                         cmdctx.parsed[j].cmddef = cmds[cmdctx.parsed[k].cmddef].parent
           /\ \A k \in 1..Len(rparsed) :
                  cmds[rparsed[k].cmddef].parent # 0
                      => \E j \in 1..(k - 1) :
                             rparsed[j].cmddef = cmds[rparsed[k].cmddef].parent
           /\ \A k \in 1..Len(ran) :
                  /\ \E j \in 1..Len(rparsed) :
                         /\ rparsed[j].cmddef = ran[k].cmd
                         /\ j < ei \/ pc = "done"
                  /\ cmds[ran[k].cmd].parent # 0
                         => \E j \in 1..pi :
                                cmdctx.parsed[j].cmddef = cmds[ran[k].cmd].parent

\* "baz" and then "qux" were given: qux ran after its parent baz, and baz
\* after the root
C19_Witness ==
    /\ pc = "done" /\ runs = 1
    /\ argv = <<BAZ, QUX>>
    /\ [k \in 1..Len(rparsed) |-> rparsed[k].cmddef] = <<1, 2, 3>>
    /\ RanCmds = <<1, 2, 3>>

\* C20: Run returns a configuration error and invokes no action, for every
\* argv, when the runner was built with a nil root command or with a syntax
\* that is neither GNU nor POSIX; the error is raised before any token is
\* classified (no rule has seen a token, nothing is parsed or bound).
C20_ConfigError ==
    (runs > 0 /\ (root = 0 \/ syntax \notin {"GNU", "POSIX"}))
        => /\ pc = "done"
           /\ IF root = 0
              THEN result = Result("config", Err("root_not_set", <<>>), 0)
              ELSE result = Result("wrapped", Err("unsupported_syntax", syntax), root)
           /\ ran = <<>>
           /\ argctx = NoArgCtx
           /\ rparsed = <<>>
           /\ argdefs = declared
           /\ target = InitTarget(declared)

\* Run was called twice with the syntax 99 on a command line that names a
\* subcommand, and returned the error both times
C20_Witness ==
    /\ pc = "done" /\ runs = 2
    /\ root = 1 /\ syntax = Unsupported
    /\ argv = <<BAZ>>
    /\ result.kind = "wrapped" /\ result.err.kind = "unsupported_syntax"
    /\ ran = <<>>

----------------------------------------------------------------------------
(* The binders                                                             *)

\* the k-th parsed argument of pargs is the one bindArgs stops at or binds:
\* no argument before it is a help argument, misses its value or is
\* rejected by its binder, and it is not a help argument itself
ReachedByBindArgs(pargs, k) ==
    /\ ~argdefs[pargs[k].argdef].IsHelp
    /\ \A j \in 1..(k - 1) :
          /\ ~argdefs[pargs[j].argdef].IsHelp
          /\ validateReqArg(argdefs, pargs[j]) = NoErr
          /\ Bind(argdefs[pargs[j].argdef].Binder, target[pargs[j].argdef],
                  pargs[j].raw, pargs[j].val).err = NoErr

\* C21: the boolean binder sets its variable to true when it is bound with
\* the empty value, and returns a conversion error and leaves the variable
\* as it was when it is bound with any other value; so when the parsed
\* argument of a boolean option that bindArgs reaches carries a value ("=x"
\* after the long name, or what follows the matched characters of a
\* cluster), Run fails with the conversion error for that value, that Bind
\* leaves the variable as the earlier arguments of the command left it and
\* no action runs, and when it carries none the variable is true afterwards.
C21_BoolBinder ==
    [][(/\ pc = "parse"
        /\ cmdctx.terminated \/ ti > Len(CurCmd.args))
          => /\ \A cur \in BOOLEAN : \A val \in Tokens \cup {<<>>} :
                   Bind("bool", cur, OptB, val) =
                       IF val = <<>>
                       THEN [err |-> NoErr, val |-> TRUE]
                       ELSE [err |-> Err("bind", val), val |-> cur]
             /\ \A k \in 1..Len(argctx.parsed) :
                   LET pa == argctx.parsed[k]
                   IN  (/\ argdefs[pa.argdef].Binder = "bool"
                        /\ ReachedByBindArgs(argctx.parsed, k))
                          => IF pa.val # <<>>
                             THEN /\ pc' = "done"
                                  /\ result' = Result("wrapped", Err("bind", pa.val),
                                                      CurCmd.cmddef)
                                  /\ target'[pa.argdef] =
                                        IF \E j \in 1..(k - 1) :
                                              argctx.parsed[j].argdef = pa.argdef
                                        THEN TRUE
                                        ELSE target[pa.argdef]
                                  /\ ran' = <<>>
                             ELSE target'[pa.argdef] = TRUE]_vars

\* "--bar=x" was given for the boolean option bar: Run failed with the
\* conversion error for "x" and the variable is still false
C21_Witness ==
    /\ pc = "done" /\ runs = 1
    /\ syntax = "GNU"
    /\ argv = <<DD \o BAR \o <<"=", "x">> >>
    /\ declared[1].Binder = "bool"
    /\ result = Result("wrapped", Err("bind", <<"x">>), 1)
    /\ target[1] = FALSE
    /\ ran = <<>>

\* C22: a successful Bind of a list binder with a non-empty value replaces
\* the variable: afterwards the variable holds exactly the converted
\* elements of the comma-separated value, in order, and none of the
\* elements it held before (defaults or the elements of an earlier Bind).
C22_ListReplaced ==
    (/\ binder.kind \in ListKinds \cup {"stringlist"}
     /\ binder.called
     /\ binder.val # <<>>
     /\ binder.err = NoErr)
        => LET parts == Split(binder.val, ",")
           IN  /\ Join(parts, ",") = binder.val
               /\ Len(binder.target) = Len(parts)
               /\ \A k \in 1..Len(parts) :
                     IF binder.kind = "stringlist"
                     THEN binder.target[k] = parts[k]
                     ELSE /\ Convert(binder.kind, parts[k]).ok
                          /\ binder.target[k] = Convert(binder.kind, parts[k]).n

\* a []int variable that held the two elements of an earlier Bind was bound
\* with "1,-2" and holds 1 and -2 and nothing else
C22_Witness ==
    /\ binder.kind = "intlist"
    /\ binder.called
    /\ binder.before = <<0 - 2, 1>>
    /\ binder.val = <<"1", ",", "-", "2">>
    /\ binder.err = NoErr
    /\ binder.target = <<1, 0 - 2>>

\* C23 as stated: for every binder kind, Bind with the empty value returns
\* success and leaves the variable as it was.
C23_EmptyKeepsTarget ==
    (binder.called /\ binder.val = <<>>)
        => (binder.err = NoErr /\ binder.target = binder.before)

\* C23 (amended): Bind with the empty value returns success for every binder
\* kind; it leaves the variable as it was for every kind but the boolean
\* one, whose variable is true afterwards whatever it was.
C23_EmptyValue ==
    (binder.called /\ binder.val = <<>>)
        => /\ binder.err = NoErr
           /\ IF binder.kind = "bool"
              THEN binder.target = TRUE
              ELSE binder.target = binder.before

\* a []uint variable that an earlier Bind set to 1, 1 was bound with the
\* empty value and still holds 1, 1
C23_Witness ==
    /\ binder.kind = "uintlist"
    /\ binder.called
    /\ binder.val = <<>>
    /\ binder.before = <<1, 1>>
    /\ binder.err = NoErr
    /\ binder.target = <<1, 1>>

----------------------------------------------------------------------------
(* Empty token groups, the definition graph, the two styles                *)

\* C24: parsing a command whose token group is empty yields no parsed
\* argument and no operand; with an empty argv (a root that has an action, a
\* context that is not cancelled) Run returns nil and has invoked the root's
\* action exactly once, with an empty operand list.
C24_EmptyArgs ==
    /\ \A k \in 1..Len(cmdctx.parsed) :
          cmdctx.parsed[k].args = <<>>
              => /\ cmdctx.parsed[k].parsedargs = <<>>
                 /\ cmdctx.parsed[k].operands = <<>>
    /\ (/\ pc = "done" /\ argv = <<>> /\ ~ctxErr /\ cmds[root].hasRun)
          => /\ result.kind = "nil"
             /\ ran = <<[cmd |-> root, operands |-> <<>>]>>

\* C25: Run never changes the definition graph: at every moment every field
\* of every argument definition is what it was when the runner was built
\* (declared keeps the definitions as built), and no step changes a command,
\* its children or its parent.
C25_GraphUnchanged == [][argdefs' = declared /\ cmds' = cmds]_vars

\* the token group of the command parseArgRules is about to parse holds no
\* token that starts with "--" except the terminator itself
SingleDashGroup == \A k \in 1..Len(CurCmd.args) :
    HasPrefix(CurCmd.args[k], DD) => CurCmd.args[k] = DD

\* what the rule chain of a style makes of the token group of the current
\* command, from its first token
GroupParsedAs(rules) ==
    parseArgRules(rules, argv, CurCmd.args, CurCmd.index, 1,
                  NewArgCtx(cmds, CurCmd.cmddef), argdefs)

\* C26: for every command and every token group without a token that
\* starts with "--" other than the terminator, the GNU chain and the POSIX
\* chain end the same way (both parse the group or both fail) and, when they
\* parse it, yield the same parsed arguments with the same values and the
\* same operands.
C26_GnuExtendsPosix ==
    (pc = "parse" /\ ti = 1 /\ SingleDashGroup)
        => LET g == GroupParsedAs(getGnuRules)
               p == GroupParsedAs(getPosixRules)
           IN  /\ g.outcome = p.outcome
               /\ g.outcome = "parsed"
                     => (g.parsed = p.parsed /\ g.operands = p.operands)

\* C27: for every argv, every program and either style, a Run that is over
\* has returned nil, an error or a Help result: it never aborts on an index
\* out of range, whatever position the handling of a termination indexes
\* the token group and argv with.
C27_NoAbort ==
    pc = "done" => result.kind \in {"nil", "help", "wrapped", "ctx", "nocmds", "config"}

----------------------------------------------------------------------------
(* Clusters, separate values of long options, all-or-nothing               *)

\* the characters of opt that match no definition of the current command
Unmatched(opt) == {j \in 1..Len(opt) : posixMatch(opt[j], argctx, argdefs) = 0}

\* C28: in a short cluster, when a character other than the first matches no
\* definition (and the scan gets that far: the characters before it match
\* boolean definitions and raise no error), posixOpt consumes the token and
\* the value of the most recently matched argument is the rest of the token
\* from that unmatched character on; when the first character matches no
\* definition, posixOpt changes nothing and does not consume the token.
C28_ClusterRemainder ==
    (pc = "parse" /\ ~cmdctx.terminated /\ ti <= Len(CurCmd.args)
     /\ IsShortForm(CurCmd.args[ti]))
        => LET tok == CurCmd.args[ti]
               opt == TrimPrefix(tok, D)
               o   == posixOpt(tok, ti - 1, argctx, argdefs)
               j   == CHOOSE k \in Unmatched(opt) : \A m \in Unmatched(opt) : k <= m
           IN  Unmatched(opt) # {}
                 => IF j = 1
                    THEN /\ ~o.skip /\ o.err = NoErr
                         /\ o.arg = tok /\ o.ctx = argctx /\ o.defs = argdefs
                    ELSE (/\ o.err = NoErr
                          /\ \A m \in 1..(j - 1) :
                                isBoolArg(argdefs, posixMatch(opt[m], argctx, argdefs)))
                            => /\ o.skip
                               /\ LastVal(o.ctx) = SubSeq(opt, j, Len(opt))

\* under GNU parseArgRules is at a token and the most recent parsed argument
\* came from a double-dash token
AfterLongOpt ==
    /\ pc = "parse" /\ syntax = "GNU"
    /\ ~cmdctx.terminated /\ ti <= Len(CurCmd.args)
    /\ argctx.last # 0
    /\ HasPrefix(argctx.parsed[argctx.last].raw, DD)

\* C29: under GNU, when the most recent parsed argument came from a
\* double-dash token and its value is still empty, a following token that
\* does not start with "--" is bound as its value if the utility declared
\* the definition required, and makes Run fail with the usage error (the
\* value must be attached with "=") if it declared it optional; a long
\* option given as "--name=value" gets that value when it is matched, and
\* the token after an argument that has its value becomes an operand.
C29_LongOptValue ==
    [][AfterLongOpt =>
        LET tok == CurCmd.args[ti]
        IN  /\ (LastVal(argctx) = <<>> /\ ~HasPrefix(tok, DD))
                  => IF declared[LastDef(argctx)].Required
                     THEN /\ pc' = "parse" /\ ti' = ti + 1
                          /\ argctx' = SetLastVal(argctx, tok)
                     ELSE /\ pc' = "done"
                          /\ result' = Result("wrapped", Err("optional_optarg", tok),
                                              CurCmd.cmddef)
            /\ (LastVal(argctx) # <<>> /\ ~HasPrefix(tok, DD))
                  => /\ pc' = "parse" /\ ti' = ti + 1
                     /\ argctx' = [argctx EXCEPT !.operands = Append(@, tok)]
            /\ (/\ HasPrefix(tok, DD) /\ Len(Split(tok, "=")) > 1
                /\ Len(argctx'.parsed) > Len(argctx.parsed))
                  => LastVal(argctx') = Join(Tail(Split(tok, "=")), "=")]_vars

\* C30: execution is all-or-nothing with respect to parsing: no action is
\* invoked while parse() is at work; an action has been invoked only if
\* every discovered command was parsed and bound (or a "--" ended the
\* parsing); and when parse() stops at a command before the last one, Run
\* is over with the error (or the Help result) of that command and has
\* invoked no action.
C30_AllOrNothing ==
    /\ pc = "parse" => ran = <<>>
    /\ ran # <<>>
          => /\ pc \in {"exec", "done"}
             /\ pi = Len(cmdctx.parsed) \/ cmdctx.terminated
             /\ result.kind \in {"none", "nil", "ctx"}
    /\ (pc \in {"exec", "done"} /\ root # 0 /\ pi < Len(cmdctx.parsed) /\ ~cmdctx.terminated)
          => /\ pc = "done"
             /\ result.kind \in {"wrapped", "help"}
             /\ result.cmd = cmdctx.parsed[pi].cmddef
             /\ ran = <<>>

\* the root was parsed and bound, the parsing of its subcommand failed
\* then: Run returned that error and the root's action was not invoked
C30_Witness ==
    /\ pc = "done" /\ runs = 1
    /\ pi = 2 /\ Len(cmdctx.parsed) = 3
    /\ Len(rparsed) = 1 /\ cmds[rparsed[1].cmddef].hasRun
    /\ result.kind = "wrapped" /\ result.cmd = cmdctx.parsed[2].cmddef
    /\ ran = <<>>

----------------------------------------------------------------------------
(* The command graph and the walker                                        *)

\* the commands listed among the children of c
Children(c) == {cmds[c].subcmds[k] : k \in 1..Len(cmds[c].subcmds)}

RECURSIVE UpFrom(_, _)
\* c and the commands reached from it by following parent up to n times
UpFrom(c, n) ==
    IF c = 0 \/ n = 0 THEN {} ELSE {c} \cup UpFrom(cmds[c].parent, n - 1)

\* c is reached again by following parent from c
OwnAncestor(c) == cmds[c].parent # 0 /\ c \in UpFrom(cmds[c].parent, Len(cmds))

\* the places where c is listed as a child: (command, position)
ListedAt(c) ==
    UNION {{<<d, k>> : k \in {j \in 1..Len(cmds[d].subcmds) : cmds[d].subcmds[j] = c}} :
              d \in DOMAIN cmds}

\* the graph is a tree below the root of the runner
IsTree ==
    /\ cmds[root].parent = 0
    /\ \A c \in DOMAIN cmds :
          /\ ~OwnAncestor(c)
          /\ \A d \in Children(c) : cmds[d].parent = c
          /\ Cardinality(ListedAt(c)) <= 1

\* C32: after any sequence of AddSubcommand calls the command graph is a
\* tree: no command is its own ancestor, every command listed among the
\* children of a command c has c as its parent, and every command that has
\* a parent is listed as a child exactly once.
C32_GraphIsTree ==
    \A c \in DOMAIN cmds :
        /\ ~OwnAncestor(c)
        /\ \A d \in Children(c) : cmds[d].parent = c
        /\ cmds[c].parent # 0 => Cardinality(ListedAt(c)) = 1

\* the commands the walker can match next
Reachable == {cmdctx.path[k] : k \in 1..Len(cmdctx.path)}

\* the commands of the Parsed Commands: the root and the commands matched
Matched == {cmdctx.parsed[k].cmddef : k \in 1..Len(cmdctx.parsed)}

\* the command matched last (the root before the first match)
LastMatched == cmdctx.parsed[Len(cmdctx.parsed)].cmddef

\* C31: on a command tree, between two tokens the walker's reachable set is
\* the union of the children of the command matched last and of its
\* ancestors, which are all matched already (before the first match: the
\* children of the root); a token is matched as a command exactly when it
\* names a command of the reachable set, and the command matched is one of
\* that set with that name.
C31_ReachableSet ==
    [][IsTree =>
        /\ pc' \in {"walk", "walked"}
              => /\ Reachable' = UNION {Children(d) : d \in UpFrom(LastMatched', Len(cmds))}
                 /\ UpFrom(LastMatched', Len(cmds)) \subseteq Matched'
                 /\ Len(cmdctx'.parsed) = 1 => Reachable' = Children(root)
        /\ (pc = "walk" /\ walker.i < Len(argv))
              => IF \E c \in Reachable : cmds[c].Name = argv[walker.i + 1]
                 THEN /\ pc' = "path"
                      /\ walker'.cmd \in Reachable
                      /\ cmds[walker'.cmd].Name = argv[walker.i + 1]
                 ELSE /\ pc' = "walk"
                      /\ Matched' = Matched
                      /\ Len(cmdctx'.parsed) = Len(cmdctx.parsed)
        /\ (pc = "path" /\ pc' = "walk")
              => /\ Len(cmdctx'.parsed) = Len(cmdctx.parsed) + 1
                 /\ LastMatched' = walker.cmd]_vars

\* foo has the children baz and qux: after "baz" was matched, "qux", its
\* sibling, was matched too
C31_Witness ==
    /\ IsTree
    /\ cmds[2].parent = 1 /\ cmds[3].parent = 1
    /\ pc = "walked"
    /\ argv = <<BAZ, QUX>>
    /\ [k \in 1..Len(cmdctx.parsed) |-> cmdctx.parsed[k].cmddef] = <<1, 2, 3>>

-----------------------------------------------------------------------------
(* The first token of a command's group                                    *)

\* the group begins with a token that is neither the terminator nor
\* dash-prefixed
FirstIsBare(args) == Len(args) > 0 /\ args[1] # DD /\ ~HasPrefix(args[1], D)

\* C33, as stated: whenever Run has returned and some discovered command's
\* group begins with a bare token, Run has returned the invalid-option
\* error
C33_AnyBareFirstFails ==
    (pc = "done" /\ \E k \in 1..Len(cmdctx.parsed) : FirstIsBare(cmdctx.parsed[k].args))
        => (result.kind = "wrapped" /\ result.err.kind = "invalid_option")

\* C33, for the commands the rule chains reach: when the chain of either
\* style starts on a command whose group begins with a bare token, Run
\* returns the invalid-option error for that token, wrapped with the help of
\* that command; and no command that has been parsed and bound has a group
\* beginning with a bare token
C33_BareFirstToken ==
    [][/\ (/\ pc = "parse" /\ ~cmdctx.terminated /\ ti = 1
           /\ FirstIsBare(CurCmd.args)
           /\ <<pc, ti, argctx, result>>' # <<pc, ti, argctx, result>>)
          => /\ pc' = "done"
             /\ result' = Result("wrapped", Err("invalid_option", CurCmd.args[1]),
                                 CurCmd.cmddef)
             /\ target' = target
             /\ rparsed' = rparsed
       /\ \A k \in 1..Len(rparsed') : ~FirstIsBare(rparsed'[k].args)]_vars

\* Run has rejected the bare first token of the group of the subcommand,
\* under the POSIX style
C33_Witness ==
    /\ pc = "done"
    /\ pi = 2
    /\ FirstIsBare(CurCmd.args)
    /\ result = Result("wrapped", Err("invalid_option", FOO), 2)
    /\ syntax = "POSIX"

-----------------------------------------------------------------------------
(* A list binder that fails                                                *)

\* C34: a Bind of a list binder that returns an error leaves the list the
\* binder points at exactly as the call found it
C34_ListAtomic ==
    (/\ binder.called
     /\ binder.kind \in ListKinds \cup {"stringlist"}
     /\ binder.err # NoErr)
        => binder.target = binder.before

\* the int list binder has failed on the second element of "1, 1" after
\* converting the first, and the list still holds what it held
C34_Witness ==
    /\ binder.called
    /\ binder.kind = "intlist"
    /\ binder.val = <<"1", ",", " ", "1">>
    /\ binder.err = Err("bind", <<" ", "1">>)
    /\ binder.before = <<7, 8, 9>>
    /\ binder.target = <<7, 8, 9>>

-----------------------------------------------------------------------------
(* The walker partitions argv                                              *)

\* the walker is between two tokens, inside updatePath, or done
Walking == pc \in {"walk", "path", "walked"}

\* the 1-based argv position after which the residual slice of the k-th
\* Parsed Command starts: the position of its name, and 0 for the root
OpenedAt(k) == IF k = 1 THEN 0 ELSE cmdctx.parsed[k].index + 1

\* the 1-based argv position at which the residual slice of the k-th Parsed
\* Command ends: just before the name of the next one, or at the last token
\* the walker has handled
ClosedAt(k) ==
    IF k < Len(cmdctx.parsed) THEN cmdctx.parsed[k + 1].index ELSE walker.i

\* C35: of the tokens the walker has handled, each is the name that opened
\* one Parsed Command or lies in the residual slice of the command opened
\* last before it; the root is the first Parsed Command, the others follow
\* in the order of the argv positions of their names, and each residual
\* slice is the run of argv between two names, in argv order
C35_Partition ==
    Walking =>
        LET P == cmdctx.parsed
        IN  /\ Len(P) >= 1
            /\ P[1].cmddef = root
            /\ \A k \in 2..Len(P) :
                  /\ P[k].index \in 0..(walker.i - 1)
                  /\ argv[P[k].index + 1] = cmds[P[k].cmddef].Name
                  /\ k > 2 => P[k - 1].index < P[k].index
            /\ \A k \in 1..Len(P) :
                  /\ OpenedAt(k) <= ClosedAt(k)
                  /\ P[k].args = SubSeq(argv, OpenedAt(k) + 1, ClosedAt(k))

\* the walker is done with a command line whose first token went to the
\* root, whose second token opened a command and whose third token went to
\* that command
C35_Witness ==
    /\ pc = "walked"
    /\ Len(argv) = 3
    /\ Len(cmdctx.parsed) = 2
    /\ cmdctx.parsed[1].args = <<argv[1]>>
    /\ cmdctx.parsed[2].index = 1
    /\ cmdctx.parsed[2].args = <<argv[3]>>

-----------------------------------------------------------------------------
(* What a Run that fails has written                                       *)

\* Run has returned help or an error of the configuration, the rule chain
\* or a binder
RunFailed == pc = "done" /\ result.kind \in {"help", "wrapped", "config"}

\* C36, as stated: when the first Run of a runner has returned help or an
\* error, every bound variable holds what it held before the Run
C36_FailedRunWritesNothing ==
    (RunFailed /\ runs = 1) => target = InitTarget(declared)

\* bindArgs gets as far as binding the k-th parsed argument: no argument up
\* to it is the help argument or lacks a required value, and no binder up
\* to it returns an error
BoundUpTo(k) ==
    \A j \in 1..k :
        LET pa == argctx.parsed[j]
            d  == argdefs[pa.argdef]
        IN  /\ ~d.IsHelp
            /\ validateReqArg(argdefs, pa) = NoErr
            /\ d.Binder # "nil" =>
                  Bind(d.Binder, target[pa.argdef], pa.raw, pa.val).err = NoErr

\* C36, for what the code does: a bound variable is written only by
\* bindArgs, and only for an argument bindArgs reaches, every argument of
\* the command before it being bound without help or error; the rule
\* chains, a missing root and an unsupported syntax write nothing, and the
\* variables of the argument bindArgs fails on and of those after it keep
\* their values
C36_WritesOnlyBound ==
    [][\A a \in DOMAIN target :
          target'[a] # target[a] =>
              /\ pc = "parse"
              /\ cmdctx.terminated \/ ti > Len(CurCmd.args)
              /\ \E k \in 1..Len(argctx.parsed) :
                    /\ argctx.parsed[k].argdef = a
                    /\ BoundUpTo(k)]_vars

\* the first Run has returned the help of the root after it had set the
\* boolean variable of the option before the help option
C36_Witness ==
    /\ RunFailed
    /\ runs = 1
    /\ result = Result("help", NoErr, 1)
    /\ declared[1].Binder = "bool"
    /\ InitTarget(declared)[1] = FALSE
    /\ target[1] = TRUE
    /\ Len(argctx.parsed) = 2
    /\ argdefs[argctx.parsed[2].argdef].IsHelp

-----------------------------------------------------------------------------
(* The end of the path update                                              *)

\* C37: the loop of updatePath walks a finite ancestor chain: it never makes
\* as many iterations as there are commands, since a command has fewer
\* ancestors than that (an iteration beyond them is on a command the loop
\* has been on before, and the loop, whose next command depends on the
\* current one alone, then never ends)
C37_PathUpdateEnds == pc = "path" => walker.steps < Len(cmds)

-----------------------------------------------------------------------------
(* The root is always discovered                                           *)

\* C38: once Run has called parseCommands the root is the first Parsed
\* Command, whatever argv holds; when parsing has succeeded the list Run
\* executes is not empty and starts with the root, and Run never returns
\* the no-commands-parsed error
C38_RootFirst ==
    /\ result.kind # "nocmds"
    /\ (runs >= 1 /\ root # 0) =>
          /\ Len(cmdctx.parsed) >= 1
          /\ cmdctx.parsed[1].cmddef = root
          /\ cmdctx.parsed[1].index = 0
    /\ (pc = "exec" \/ (pc = "done" /\ result.kind \in {"nil", "ctx"})) =>
          /\ Len(rparsed) >= 1
          /\ rparsed[1].cmddef = root

\* Run has parsed the empty command line and is about to execute the root
C38_Witness ==
    /\ argv = <<>>
    /\ pc = "exec"
    /\ ei = 1
    /\ Len(rparsed) = 1
    /\ rparsed[1].cmddef = root
    /\ rparsed[1].args = <<>>

====
